---- MODULE Spec2Model ----
(***************************************************************************)
(* Model of scylla/src/serialize/value_serializer.rs: the serializer and   *)
(* supplier traits, the four concrete serializers and the two concrete     *)
(* suppliers, driven by a caller that the Rust ownership rules constrain.  *)
(***************************************************************************)
EXTENDS Integers, Sequences, FiniteSets, TLC

VARIABLES supplier, src, held, owned, calls, encLog

vars == <<supplier, src, held, owned, calls, encLog>>

\* Longest recorded history of calls on the supplier and the owned serializer.
MaxCalls == 4
\* Most borrowed serializers the caller holds at once.
MaxHeld == 3

----------------------------------------------------------------------------
(* Result<T, SerializationError> *)

Ok(v) == [ok |-> TRUE, val |-> v]

Err(e) == [ok |-> FALSE, err |-> e]

----------------------------------------------------------------------------
(* The collaborators: bind values, statement metadata, the encoder.        *)

\* A bind value: its CQL type and its encoded bytes.
Int5 == [t |-> "int", v |-> <<0, 0, 0, 5>>]

Alice == [t |-> "text", v |-> <<65, 108, 105, 99, 101>>]

\* The raw value collections T a supplier is built from.
RowValues == {<<>>, <<Int5>>, <<Int5, Alice>>}

\* Prepared statements, each by the column types of its bind markers.
Statements == {<<"int">>, <<"int", "text">>, <<"text", "int">>}

\* A cell of SerializedValues: the 4-byte big-endian length, then the bytes.
Cell(value) == <<0, 0, 0, Len(value.v)>> \o value.v

RECURSIVE Cells(_)
Cells(values) ==
    IF values = <<>> THEN <<>> ELSE Cell(Head(values)) \o Cells(Tail(values))

\* PreparedStatement::serialize_values: the encoder.
serialize_values(prepared, values) ==
    IF Len(values) # Len(prepared)
    THEN Err([kind |-> "WrongColumnCount",
              rust_cols |-> Len(values), cql_cols |-> Len(prepared)])
    ELSE IF \E i \in 1..Len(values) : values[i].t # prepared[i]
    THEN LET i == CHOOSE k \in 1..Len(values) :
                      /\ values[k].t # prepared[k]
                      /\ \A m \in 1..(k - 1) : values[m].t = prepared[m]
         IN  Err([kind |-> "MismatchedType", column |-> i,
                  expected |-> prepared[i], got |-> values[i].t])
    ELSE Ok([bytes |-> Cells(values), element_count |-> Len(values)])

\* One invocation of the encoder: its result and the trace of the invocation.
Encode(prepared, values) ==
    [ret |-> serialize_values(prepared, values),
     enc |-> <<[prepared |-> prepared, values |-> values]>>]

\* SerializeRow::is_empty
SerializeRow_is_empty(values) == Len(values) = 0

\* SerializedValues::is_empty
SerializedValues_is_empty(buffer) == buffer.element_count = 0

\* SerializedValues::new: the buffer of no values.
SerializedValues_new == [bytes |-> <<>>, element_count |-> 0]

\* The buffers a pre-serialized supplier is built from: the empty buffer and
\* the successful encodes.
Buffers ==
    {SerializedValues_new} \cup
    {serialize_values(p, v).val :
        <<p, v>> \in {pv \in Statements \X RowValues :
                          serialize_values(pv[1], pv[2]).ok}}

----------------------------------------------------------------------------
(* 3. Concrete serializers                                                 *)

\* &'p SerializedValues pointing at the supplier's field.
RefSupplierValues == [ref |-> "supplier.values"]

IsRef(x) == "ref" \in DOMAIN x

\* What a reference into the supplier reads.
Deref(r) == supplier.values

BorrowedValueSerializer_new(values) ==
    [type |-> "BorrowedValueSerializer", values |-> values]

BorrowedValueSerializer_as_serialized(self) == self.values

BorrowedPreSerializedSerializer_new(values) ==
    [type |-> "BorrowedPreSerializedSerializer", values |-> values]

BorrowedPreSerializedSerializer_as_serialized(self) == Deref(self.values)

OwnedValueSerializer_new(prepared, values) ==
    [type |-> "OwnedValueSerializer", prepared |-> prepared, values |-> values]

OwnedValueSerializer_into_serialized(self) ==
    Encode(self.prepared, self.values)

OwnedPreSerializedSerializer_new(values) ==
    [type |-> "OwnedPreSerializedSerializer", values |-> values]

OwnedPreSerializedSerializer_into_serialized(self) ==
    [ret |-> Ok(self.values), enc |-> <<>>]

\* Dispatch of SerializesValuesBorrowed::as_serialized on the implementing type.
SerializesValuesBorrowed_as_serialized(self) ==
    IF self.type = "BorrowedValueSerializer"
    THEN BorrowedValueSerializer_as_serialized(self)
    ELSE BorrowedPreSerializedSerializer_as_serialized(self)

\* Dispatch of SerializesValuesOwned::into_serialized on the implementing type.
SerializesValuesOwned_into_serialized(self) ==
    IF self.type = "OwnedValueSerializer"
    THEN OwnedValueSerializer_into_serialized(self)
    ELSE OwnedPreSerializedSerializer_into_serialized(self)

\* A serializer whose type carries the lifetime of a borrow of the supplier.
BorrowsSupplier(ser) == IsRef(ser.values)

----------------------------------------------------------------------------
(* 4. Concrete suppliers.  A method yields its return value (ret), the     *)
(* receiver after the call (self) and the encoder invocations it made (enc)*)

\* A supplier moved out of by a `self` receiver.
Moved == [type |-> "moved"]

\* A supplier that went out of scope.
Dropped == [type |-> "dropped"]

SupplierTypes == {"ValuesSerializationSupplier", "PreSerializedSupplier"}

ValuesSerializationSupplier_new(values) ==
    [type |-> "ValuesSerializationSupplier", values |-> values]

ValuesSerializationSupplier_NonConsuming_is_empty(self) ==
    [ret |-> SerializeRow_is_empty(self.values), self |-> self, enc |-> <<>>]

\* Variant: the first successful encode is kept in the supplier and handed out
\* again, whatever the statement of a later call.
ValuesSerializationSupplier_for_prepared_borrow_stale(self, prepared) ==
    IF "cache" \in DOMAIN self
    THEN [ret |-> Ok(BorrowedValueSerializer_new(self.cache)),
          self |-> self, enc |-> <<>>]
    ELSE LET e == Encode(prepared, self.values)
         IN  [ret  |-> IF e.ret.ok
                       THEN Ok(BorrowedValueSerializer_new(e.ret.val))
                       ELSE e.ret,
              self |-> IF e.ret.ok
                       THEN [type |-> self.type, values |-> self.values,
                             cache |-> e.ret.val]
                       ELSE self,
              enc  |-> e.enc]

\* Variant: an encode failure is swallowed and an empty buffer returned
\* (unwrap_or_default in place of `?`).
ValuesSerializationSupplier_for_prepared_borrow_swallow(self, prepared) ==
    LET e == Encode(prepared, self.values)
    IN  [ret  |-> IF e.ret.ok
                  THEN Ok(BorrowedValueSerializer_new(e.ret.val))
                  ELSE Ok(BorrowedValueSerializer_new(SerializedValues_new)),
         self |-> self,
         enc  |-> e.enc]

\* Variant: the encoder's error is replaced by a fresh one without its detail
\* (map_err in place of `?`).
ValuesSerializationSupplier_for_prepared_borrow_maperr(self, prepared) ==
    LET e == Encode(prepared, self.values)
    IN  [ret  |-> IF e.ret.ok
                  THEN Ok(BorrowedValueSerializer_new(e.ret.val))
                  ELSE Err([kind |-> "SerializationError"]),
         self |-> self,
         enc  |-> e.enc]

\* Variant: the result of an encode is kept per statement and a repeated call
\* against the cached statement does not invoke the encoder.
ValuesSerializationSupplier_for_prepared_borrow_memo(self, prepared) ==
    IF "memo" \in DOMAIN self /\ self.memo.prepared = prepared
    THEN [ret |-> self.memo.ret, self |-> self, enc |-> <<>>]
    ELSE LET e == Encode(prepared, self.values)
             r == IF e.ret.ok
                  THEN Ok(BorrowedValueSerializer_new(e.ret.val))
                  ELSE e.ret
         IN  [ret  |-> r,
              self |-> [type |-> self.type, values |-> self.values,
                        memo |-> [prepared |-> prepared, ret |-> r]],
              enc  |-> e.enc]

ValuesSerializationSupplier_for_prepared_borrow(self, prepared) ==
    LET e == Encode(prepared, self.values)
    IN  [ret  |-> IF e.ret.ok
                  THEN Ok(BorrowedValueSerializer_new(e.ret.val))
                  ELSE e.ret,
         self |-> self,
         enc  |-> e.enc]

ValuesSerializationSupplier_Consuming_is_empty(self) ==
    [ret |-> SerializeRow_is_empty(self.values), self |-> self, enc |-> <<>>]

\* Variant: the receiver is `&self` and the values are cloned into the owned
\* serializer, so the supplier stays usable.
ValuesSerializationSupplier_into_owned_serializer_clone(self, prepared) ==
    [ret  |-> Ok(OwnedValueSerializer_new(prepared, self.values)),
     self |-> self,
     enc  |-> <<>>]

\* Variant: the values are encoded eagerly, before the owned serializer is
\* built, and a failure is returned at once.
ValuesSerializationSupplier_into_owned_serializer_eager(self, prepared) ==
    LET e == Encode(prepared, self.values)
    IN  [ret  |-> IF e.ret.ok
                  THEN Ok(OwnedValueSerializer_new(prepared, self.values))
                  ELSE e.ret,
         self |-> Moved,
         enc  |-> e.enc]

ValuesSerializationSupplier_into_owned_serializer(self, prepared) ==
    [ret  |-> Ok(OwnedValueSerializer_new(prepared, self.values)),
     self |-> Moved,
     enc  |-> <<>>]

PreSerializedSupplier_new(values) ==
    [type |-> "PreSerializedSupplier", values |-> values]

PreSerializedSupplier_NonConsuming_is_empty(self) ==
    [ret |-> SerializedValues_is_empty(self.values), self |-> self, enc |-> <<>>]

PreSerializedSupplier_for_prepared_borrow(self, prepared) ==
    [ret  |-> Ok(BorrowedPreSerializedSerializer_new(RefSupplierValues)),
     self |-> self,
     enc  |-> <<>>]

\* Variant: the test is inverted.
PreSerializedSupplier_Consuming_is_empty_negated(self) ==
    [ret |-> ~SerializedValues_is_empty(self.values), self |-> self, enc |-> <<>>]

PreSerializedSupplier_Consuming_is_empty(self) ==
    [ret |-> SerializedValues_is_empty(self.values), self |-> self, enc |-> <<>>]

\* Variant: a fresh empty buffer is moved out in place of the stored one.
PreSerializedSupplier_into_owned_serializer_default(self, prepared) ==
    [ret  |-> Ok(OwnedPreSerializedSerializer_new(SerializedValues_new)),
     self |-> Moved,
     enc  |-> <<>>]

\* Variant: the stored buffer is validated against the statement's
\* bind-marker count and a mismatch is an error.
PreSerializedSupplier_into_owned_serializer_validated(self, prepared) ==
    [ret  |-> IF self.values.element_count = Len(prepared)
              THEN Ok(OwnedPreSerializedSerializer_new(self.values))
              ELSE Err([kind |-> "WrongColumnCount",
                        rust_cols |-> self.values.element_count,
                        cql_cols |-> Len(prepared)]),
     self |-> Moved,
     enc  |-> <<>>]

PreSerializedSupplier_into_owned_serializer(self, prepared) ==
    [ret  |-> Ok(OwnedPreSerializedSerializer_new(self.values)),
     self |-> Moved,
     enc  |-> <<>>]

\* Dispatch of the supplier traits on the implementing type.
NonConsumingSupplier_is_empty(self) ==
    IF self.type = "ValuesSerializationSupplier"
    THEN ValuesSerializationSupplier_NonConsuming_is_empty(self)
    ELSE PreSerializedSupplier_NonConsuming_is_empty(self)

NonConsumingSupplier_for_prepared_borrow(self, prepared) ==
    IF self.type = "ValuesSerializationSupplier"
    THEN ValuesSerializationSupplier_for_prepared_borrow(self, prepared)
    ELSE PreSerializedSupplier_for_prepared_borrow(self, prepared)

ConsumingSupplier_is_empty(self) ==
    IF self.type = "ValuesSerializationSupplier"
    THEN ValuesSerializationSupplier_Consuming_is_empty(self)
    ELSE PreSerializedSupplier_Consuming_is_empty(self)

ConsumingSupplier_into_owned_serializer(self, prepared) ==
    IF self.type = "ValuesSerializationSupplier"
    THEN ValuesSerializationSupplier_into_owned_serializer(self, prepared)
    ELSE PreSerializedSupplier_into_owned_serializer(self, prepared)

----------------------------------------------------------------------------
(* The caller.  supplier: the supplier value, or Moved / Dropped.          *)
(* src: the supplier as it was constructed.      held: the borrowed        *)
(* serializers the caller still holds.  owned: the owned serializer.       *)
(* calls: the calls made so far with their results.  encLog: the encoder's *)
(* invocations in order.                                                   *)

NoSerializer == [type |-> "none"]

Finalized == [type |-> "finalized"]

Abandoned == [type |-> "abandoned"]

OwnedTypes == {"OwnedValueSerializer", "OwnedPreSerializedSerializer"}

Live == supplier.type \in SupplierTypes

\* The borrow checker: no held serializer borrows from the supplier.
Unborrowed == \A h \in held : ~BorrowsSupplier(h.ser)

\* A call as the history records it; read and view are filled in when the
\* caller reads the borrowed serializer the call returned.
Call(op, iface, prepared, r) ==
    [op |-> op, iface |-> iface, prepared |-> prepared,
     ret |-> r.ret, enc |-> r.enc, read |-> FALSE, view |-> <<>>]

Init ==
    /\ \/ \E values \in RowValues :
             supplier = ValuesSerializationSupplier_new(values)
       \/ \E values \in Buffers :
             supplier = PreSerializedSupplier_new(values)
    /\ src = supplier
    /\ held = {}
    /\ owned = NoSerializer
    /\ calls = <<>>
    /\ encLog = <<>>

IsEmpty(iface) ==
    /\ Live
    /\ Len(calls) < MaxCalls
    /\ LET r == IF iface = "NonConsumingSupplier"
                THEN NonConsumingSupplier_is_empty(supplier)
                ELSE ConsumingSupplier_is_empty(supplier)
       IN  /\ supplier' = r.self
           /\ calls' = Append(calls, Call("is_empty", iface, <<>>, r))
           /\ encLog' = encLog \o r.enc
    /\ UNCHANGED <<src, held, owned>>

ForPreparedBorrow(prepared) ==
    /\ Live
    /\ Len(calls) < MaxCalls
    /\ Cardinality(held) < MaxHeld
    /\ LET r == NonConsumingSupplier_for_prepared_borrow(supplier, prepared)
       IN  /\ supplier' = r.self
           /\ calls' = Append(calls,
                  Call("for_prepared_borrow", "NonConsumingSupplier", prepared, r))
           /\ encLog' = encLog \o r.enc
           /\ held' = IF r.ret.ok
                      THEN held \cup {[call |-> Len(calls) + 1,
                                       from |-> supplier.type,
                                       ser  |-> r.ret.val]}
                      ELSE held
    /\ UNCHANGED <<src, owned>>

AsSerialized(h) ==
    /\ h \in held
    /\ calls' = [calls EXCEPT
                   ![h.call].read = TRUE,
                   ![h.call].view = SerializesValuesBorrowed_as_serialized(h.ser)]
    /\ UNCHANGED <<supplier, src, held, owned, encLog>>

DropBorrowed(h) ==
    /\ h \in held
    /\ held' = held \ {h}
    /\ UNCHANGED <<supplier, src, owned, calls, encLog>>

IntoOwnedSerializer(prepared) ==
    /\ Live
    /\ Unborrowed
    /\ Len(calls) < MaxCalls
    /\ LET r == ConsumingSupplier_into_owned_serializer(supplier, prepared)
       IN  /\ supplier' = r.self
           /\ calls' = Append(calls,
                  Call("into_owned_serializer", "ConsumingSupplier", prepared, r))
           /\ encLog' = encLog \o r.enc
           /\ owned' = IF r.ret.ok THEN r.ret.val ELSE owned
    /\ UNCHANGED <<src, held>>

IntoSerialized ==
    /\ owned.type \in OwnedTypes
    /\ Len(calls) < MaxCalls
    /\ LET r == SerializesValuesOwned_into_serialized(owned)
       IN  /\ calls' = Append(calls,
                  Call("into_serialized", owned.type, <<>>, r))
           /\ encLog' = encLog \o r.enc
    /\ owned' = Finalized
    /\ UNCHANGED <<supplier, src, held>>

AbandonOwned ==
    /\ owned.type \in OwnedTypes
    /\ owned' = Abandoned
    /\ UNCHANGED <<supplier, src, held, calls, encLog>>

DropSupplier ==
    /\ Live
    /\ Unborrowed
    /\ supplier' = Dropped
    /\ UNCHANGED <<src, held, owned, calls, encLog>>

Next ==
    \/ \E iface \in {"NonConsumingSupplier", "ConsumingSupplier"} : IsEmpty(iface)
    \/ \E prepared \in Statements : ForPreparedBorrow(prepared)
    \/ \E h \in held : AsSerialized(h)
    \/ \E h \in held : DropBorrowed(h)
    \/ \E prepared \in Statements : IntoOwnedSerializer(prepared)
    \/ IntoSerialized
    \/ AbandonOwned
    \/ DropSupplier

Spec == Init /\ [][Next]_vars

----------------------------------------------------------------------------
(* Properties                                                              *)

Raw == src.type = "ValuesSerializationSupplier"

Pre == src.type = "PreSerializedSupplier"

Idx == 1..Len(calls)

BorrowCalls == {i \in Idx : calls[i].op = "for_prepared_borrow"}

OwnedCalls == {i \in Idx : calls[i].op = "into_owned_serializer"}

FinalCalls == {i \in Idx : calls[i].op = "into_serialized"}

\* C1: on a raw-value supplier any two for_prepared_borrow calls against the
\* same statement return the same result, whatever was called in between, and
\* the supplier is left as it was constructed.
C1_BorrowIsPure ==
    Raw =>
        /\ \A i, j \in BorrowCalls :
               calls[i].prepared = calls[j].prepared => calls[i].ret = calls[j].ret
        /\ Live => supplier = src

\* Two borrows against one statement with a successful borrow against another
\* statement in between.
C1_Witness ==
    /\ Raw
    /\ \E i, k, j \in BorrowCalls :
          /\ i < k /\ k < j
          /\ calls[i].prepared = calls[j].prepared
          /\ calls[k].prepared # calls[i].prepared
          /\ calls[k].ret.ok

\* C2: every buffer a pre-serialized supplier built from B yields is B: each
\* view read through a borrowed serializer, for any statement, and the buffer
\* into_owned_serializer followed by into_serialized returns.
C2_PreSerializedYieldsB ==
    Pre =>
        /\ \A i \in BorrowCalls : calls[i].read => calls[i].view = src.values
        /\ \A h \in held :
               SerializesValuesBorrowed_as_serialized(h.ser) = src.values
        /\ \A i \in FinalCalls : calls[i].ret = Ok(src.values)

\* Two borrows against different statements, one of them not matching B, both
\* read, then the consuming path run to its end.
C2_Witness ==
    /\ Pre
    /\ src.values.element_count > 0
    /\ \E i, j \in BorrowCalls :
          /\ calls[i].prepared # calls[j].prepared
          /\ Len(calls[i].prepared) # src.values.element_count
          /\ calls[i].read /\ calls[j].read
    /\ FinalCalls # {}

\* C3: when the arity of the raw values differs from the statement's
\* bind-marker count, for_prepared_borrow ends in an error and so does
\* into_serialized after into_owned_serializer; neither yields a buffer.
C3_ArityMismatchFails ==
    Raw =>
        /\ \A i \in BorrowCalls :
               Len(calls[i].prepared) # Len(src.values) => ~calls[i].ret.ok
        /\ \A j \in FinalCalls : \A i \in OwnedCalls :
               (i < j /\ Len(calls[i].prepared) # Len(src.values))
                   => ~calls[j].ret.ok

\* Both paths taken against a statement of another arity.
C3_Witness ==
    /\ Raw
    /\ \E i \in BorrowCalls : Len(calls[i].prepared) # Len(src.values)
    /\ \E j \in FinalCalls : \E i \in OwnedCalls :
          i < j /\ Len(calls[i].prepared) # Len(src.values)

\* C4: once into_owned_serializer has been called the supplier is gone: no
\* is_empty, for_prepared_borrow or second into_owned_serializer follows, and
\* the value source is held by the owned serializer alone.
C4_ConsumedAtMostOnce ==
    \A i \in OwnedCalls :
        /\ \A j \in Idx : j > i => calls[j].op = "into_serialized"
        /\ supplier = Moved
        /\ owned.type \in OwnedTypes => owned.values = src.values

\* A supplier used through both interfaces and then consumed.
C4_Witness ==
    /\ supplier = Moved
    /\ owned.type \in OwnedTypes
    /\ \E i, j \in Idx : i < j /\ calls[i].op = "is_empty" /\ j \in OwnedCalls

\* C5: no borrowed serializer returned by for_prepared_borrow is still held
\* once its supplier has been consumed by into_owned_serializer or dropped,
\* for the raw-value and for the pre-serialized supplier.
C5_NoBorrowedOutlivesSupplier ==
    ~Live => held = {}

\* C6: into_owned_serializer on a raw-value supplier returns success without
\* invoking the encoder, for every statement; into_serialized invokes it once,
\* against that statement and the moved values; nothing else of the consuming
\* path invokes it, so an abandoned serializer costs no encode.
C6_ConsumingPathIsLazy ==
    Raw =>
        /\ \A i \in OwnedCalls :
               /\ calls[i].enc = <<>>
               /\ calls[i].ret =
                      Ok(OwnedValueSerializer_new(calls[i].prepared, src.values))
        /\ \A j \in FinalCalls : \A i \in OwnedCalls :
               i < j => calls[j].enc = <<[prepared |-> calls[i].prepared,
                                          values |-> src.values]>>
        /\ Len(encLog) = Cardinality(BorrowCalls) + Cardinality(FinalCalls)

\* A raw-value supplier consumed against a statement its values do not match,
\* and the owned serializer finalized.
C6_Witness ==
    /\ Raw
    /\ owned = Finalized
    /\ \E i \in OwnedCalls : ~serialize_values(calls[i].prepared, src.values).ok
    /\ Len(encLog) = 1

\* C7: for_prepared_borrow on a raw-value supplier returns what the encoder
\* returns for the same statement and values: on success a serializer whose
\* view is the encoder's buffer, on failure the encoder's error unchanged.
C7_BorrowEqualsEncoder ==
    Raw =>
        \A i \in BorrowCalls :
            LET e == serialize_values(calls[i].prepared, src.values)
            IN  IF e.ok
                THEN /\ calls[i].ret.ok
                     /\ SerializesValuesBorrowed_as_serialized(calls[i].ret.val)
                            = e.val
                     /\ calls[i].read => calls[i].view = e.val
                ELSE calls[i].ret = e

\* A successful borrow that was read, and a failed one.
C7_Witness ==
    /\ Raw
    /\ \E i, j \in BorrowCalls :
          /\ calls[i].ret.ok /\ calls[i].read
          /\ calls[i].view.element_count = 2
          /\ ~calls[j].ret.ok

\* C8: is_empty, through either interface, is the emptiness of the wrapped
\* values on a raw-value supplier and of the stored buffer on a pre-serialized
\* one, whatever was called before.
C8_IsEmptyIsSourceEmptiness ==
    \A i \in Idx :
        calls[i].op = "is_empty" =>
            calls[i].ret = IF Raw THEN Len(src.values) = 0
                                  ELSE src.values.element_count = 0

\* is_empty through both interfaces after a borrow, on an empty source.
C8_Witness ==
    \E i \in BorrowCalls : \E j, k \in Idx :
        /\ i < j /\ i < k
        /\ calls[j].op = "is_empty" /\ calls[j].iface = "NonConsumingSupplier"
        /\ calls[k].op = "is_empty" /\ calls[k].iface = "ConsumingSupplier"
        /\ calls[j].ret /\ calls[k].ret

\* C9: on a pre-serialized supplier for_prepared_borrow, into_owned_serializer
\* and into_serialized always succeed and the encoder is never invoked.
C9_PreSerializedNeverFails ==
    Pre =>
        /\ encLog = <<>>
        /\ \A i \in BorrowCalls \cup OwnedCalls \cup FinalCalls :
               calls[i].ret.ok /\ calls[i].enc = <<>>

\* All three operations against statements the stored buffer does not match.
C9_Witness ==
    /\ Pre
    /\ \E i \in BorrowCalls : Len(calls[i].prepared) # src.values.element_count
    /\ \E i \in OwnedCalls : Len(calls[i].prepared) # src.values.element_count
    /\ FinalCalls # {}

\* C10: every for_prepared_borrow on a raw-value supplier invokes the encoder
\* exactly once, against the call's statement, also when the statement was
\* used before; n calls make n invocations, and every borrowed serializer
\* returned owns its buffer.
C10_AlwaysReencodes ==
    Raw =>
        /\ \A i \in BorrowCalls :
               calls[i].enc = <<[prepared |-> calls[i].prepared,
                                 values |-> src.values]>>
        /\ FinalCalls = {} => Len(encLog) = Cardinality(BorrowCalls)
        /\ \A h \in held : h.ser = BorrowedValueSerializer_new(h.ser.values)
                           /\ ~IsRef(h.ser.values)

\* Three successful borrows against one statement, all three still held.
C10_Witness ==
    /\ Raw
    /\ Cardinality(held) = 3
    /\ \A h1, h2 \in held : calls[h1.call].prepared = calls[h2.call].prepared
    /\ Len(encLog) = 3

====
